---- MODULE Spec2Model ----
(***************************************************************************)
(* devinci-pybuilder: the config-to-manifest generation pipeline           *)
(* (devinci_pybuilder.py) and its command-line orchestrator (main.py).     *)
(*                                                                         *)
(* A Python str is a sequence of tokens.  Text the program takes apart     *)
(* (a ConsoleScripts value, the requirements file) is a sequence of        *)
(* one-character tokens; text it only passes through (a Build value, a     *)
(* config key, a piece of the manifest template) may be one token.         *)
(* The filesystem maps each path the program touches to what is there.     *)
(* A config file's data is the INI document as written: a sequence of      *)
(* sections, each a sequence of key/value items in declaration order.      *)
(***************************************************************************)
EXTENDS Naturals, Sequences, FiniteSets, TLC

VARIABLES
    fs,                 \* the filesystem: path -> [kind, data]
    entry_fs,           \* the filesystem when the invocation started
    args,               \* the parsed command line (argparse.Namespace)
    pc,                 \* where the invocation is
    build_info,         \* generate_setup_py's locals, None until assigned
    scripts,
    entry_points,
    requirements,
    setup_py_content,   \* what generate_setup_py returned
    error,              \* the uncaught exception that ended the invocation
    io_log              \* builder.build(): its prompts, answers, file reads
                        \* and subprocess runs, in order

vars == <<fs, entry_fs, args, pc, build_info, scripts, entry_points,
          requirements, setup_py_content, error, io_log>>

(***************************************************************************)
(* Bounds of the model.                                                    *)
(***************************************************************************)
MaxReqLen == 4     \* characters in a requirements file
MaxValLen == 3      \* characters in a ConsoleScripts value
MaxEntries == 2     \* items in a Scripts or ConsoleScripts section
MaxBuildKeys == 2   \* keys present in a Build section

(***************************************************************************)
(* Python values.                                                          *)
(***************************************************************************)
None == [set |-> FALSE, val |-> <<>>]
Some(v) == [set |-> TRUE, val |-> v]

\* An exception is <<type, what it is about>>.
NoError == <<"none", "">>
FileNotFoundError(what) == <<"FileNotFoundError", what>>
ValueError == <<"ValueError", "unpack">>
IsADirectoryError(what) == <<"IsADirectoryError", what>>

Min(S) == CHOOSE x \in S : \A y \in S : x <= y
Max(S) == CHOOSE x \in S : \A y \in S : x >= y

Whitespace == {" ", "\n"}

\* str.strip(): drop leading and trailing whitespace.
strip(s) ==
    LET keep == {i \in 1..Len(s) : s[i] \notin Whitespace}
    IN  IF keep = {} THEN <<>> ELSE SubSeq(s, Min(keep), Max(keep))

\* str.split(sep): cut at every occurrence of sep; always at least one part.
RECURSIVE split(_, _)
split(s, sep) ==
    LET at == {i \in 1..Len(s) : s[i] = sep}
    IN  IF at = {} THEN <<s>>
        ELSE <<SubSeq(s, 1, Min(at) - 1)>>
             \o split(SubSeq(s, Min(at) + 1, Len(s)), sep)

\* file.readlines(): the lines of a text, each with its line ending.
RECURSIVE readlines(_)
readlines(text) ==
    LET at == {i \in 1..Len(text) : text[i] = "\n"}
    IN  IF text = <<>> THEN <<>>
        ELSE IF at = {} THEN <<text>>
        ELSE <<SubSeq(text, 1, Min(at))>>
             \o readlines(SubSeq(text, Min(at) + 1, Len(text)))

\* sep.join(parts)
RECURSIVE join(_, _)
join(parts, sep) ==
    IF parts = <<>> THEN <<>>
    ELSE IF Len(parts) = 1 THEN parts[1]
    ELSE parts[1] \o sep \o join(Tail(parts), sep)

\* repr() of a str without quotes or escapes, of a list of str, and of a
\* dict from str to list of str (a sequence of key/value items).
repr_str(s) == <<"'">> \o s \o <<"'">>
repr_list(l) ==
    <<"[">> \o join([i \in 1..Len(l) |-> repr_str(l[i])], <<", ">>) \o <<"]">>
repr_dict(d) ==
    <<"{">>
    \o join([i \in 1..Len(d) |->
                repr_str(<<d[i].key>>) \o <<": ">> \o repr_list(d[i].value)],
            <<", ">>)
    \o <<"}">>

\* dict.get(key, default) and list(dict.values())
dict_get(d, key, default) ==
    IF \E i \in 1..Len(d) : d[i].key = key
    THEN d[CHOOSE i \in 1..Len(d) : d[i].key = key].value
    ELSE default
dict_values(d) == [i \in 1..Len(d) |-> d[i].value]

(***************************************************************************)
(* The filesystem.                                                         *)
(***************************************************************************)
ConfigPath == "config.ini"
ReadmePath == "README.md"
RequirementsPath == "requirements.txt"
SetupPath == "setup.py"
TemplateOutPath == "my-config.ini"
ExampleConfigPath == "stub/example-config.ini"
Cwd == "."
NoPath == ""

Paths == {ConfigPath, ReadmePath, RequirementsPath, SetupPath,
          TemplateOutPath, ExampleConfigPath, Cwd}

Absent == [kind |-> "absent", data |-> <<>>]
Dir == [kind |-> "dir", data |-> <<>>]
File(data) == [kind |-> "file", data |-> data]

isfile(f, path) == f[path].kind = "file"

\* open(path, 'w') with nothing written: the file exists and is empty.
create_empty(f, path) == [f EXCEPT ![path] = File(<<>>)]

(***************************************************************************)
(* configparser.ConfigParser: read() skips a file that does not exist and  *)
(* lower-cases every key (optionxform); a section keeps its items in       *)
(* declaration order.                                                      *)
(***************************************************************************)
optionxform(key) ==
    CASE key = "Name" -> "name"
      [] OTHER -> key

ConfigParser_read(f, config_file) ==
    IF isfile(f, config_file)
    THEN LET doc == f[config_file].data
         IN  [s \in 1..Len(doc) |->
                [name |-> doc[s].name,
                 items |-> [i \in 1..Len(doc[s].items) |->
                              [key |-> optionxform(doc[s].items[i].key),
                               value |-> doc[s].items[i].value]]]]
    ELSE <<>>

has_section(config, section) ==
    \E s \in 1..Len(config) : config[s].name = section
section_items(config, section) ==
    config[CHOOSE s \in 1..Len(config) : config[s].name = section].items

(***************************************************************************)
(* devinci_pybuilder.py: the field extractors.  An extractor that can      *)
(* raise returns [error, value].                                           *)
(***************************************************************************)
Ok(v) == [error |-> NoError, value |-> v]
Raised(e) == [error |-> e, value |-> <<>>]

\* The dict of a section's items, or {} when the document has no such section.
_read_config_section(f, config_file, section) ==
    LET config == ConfigParser_read(f, config_file)
    IN  IF has_section(config, section)
        THEN section_items(config, section)
        ELSE <<>>

\* A variant that lists the section's keys: list(config).
_parse_scripts_from_config_keys(f, config_file) ==
    LET config == _read_config_section(f, config_file, "Scripts")
    IN  [i \in 1..Len(config) |-> <<config[i].key>>]

_parse_scripts_from_config(f, config_file) ==
    LET config == _read_config_section(f, config_file, "Scripts")
    IN  dict_values(config)

\* A variant that cuts at the first colon only: command.split(':', 1).
_parse_entry_points_from_config_maxsplit(f, config_file) ==
    LET config == ConfigParser_read(f, config_file)
    IN  IF has_section(config, "ConsoleScripts")
        THEN LET items == section_items(config, "ConsoleScripts")
                 colons(i) == {j \in 1..Len(items[i].value) : items[i].value[j] = ":"}
             IN  IF \E i \in 1..Len(items) : colons(i) = {}
                 THEN Raised(ValueError)
                 ELSE Ok(<<[key |-> "console_scripts",
                            value |-> [i \in 1..Len(items) |->
                                         <<items[i].key, "=">> \o items[i].value]]>>)
        ELSE Ok(<<>>)

\* A variant that never raises: command.partition(':'), which leaves the
\* function empty when there is no colon and keeps further colons in it.
_parse_entry_points_from_config_partition(f, config_file) ==
    LET config == ConfigParser_read(f, config_file)
    IN  IF has_section(config, "ConsoleScripts")
        THEN LET items == section_items(config, "ConsoleScripts")
                 colons(i) == {j \in 1..Len(items[i].value) : items[i].value[j] = ":"}
             IN  Ok(<<[key |-> "console_scripts",
                       value |-> [i \in 1..Len(items) |->
                                    <<items[i].key, "=">> \o items[i].value
                                    \o IF colons(i) = {} THEN <<":">> ELSE <<>>]]>>)
        ELSE Ok(<<>>)

\* mod_rel_path, function = command.split(':') raises ValueError unless the
\* split gives exactly two parts; the first item that raises ends the loop.
_parse_entry_points_from_config(f, config_file) ==
    LET config == ConfigParser_read(f, config_file)
    IN  IF has_section(config, "ConsoleScripts")
        THEN LET items == section_items(config, "ConsoleScripts")
                 parts(i) == split(items[i].value, ":")
             IN  IF \E i \in 1..Len(items) : Len(parts(i)) # 2
                 THEN Raised(ValueError)
                 ELSE Ok(<<[key |-> "console_scripts",
                            value |-> [i \in 1..Len(items) |->
                                         <<items[i].key, "=">> \o parts(i)[1]
                                         \o <<":">> \o parts(i)[2]]]>>)
        ELSE Ok(<<>>)

\* A variant that drops blank lines: [... for req in requirements if req.strip()].
_parse_requirements_from_file_nonblank(f, requirements_file) ==
    IF isfile(f, requirements_file)
    THEN LET lines == readlines(f[requirements_file].data)
             NonBlank(l) == strip(l) # <<>>
             kept == SelectSeq(lines, NonBlank)
         IN  Ok([i \in 1..Len(kept) |-> strip(kept[i])])
    ELSE Raised(FileNotFoundError(requirements_file))

\* A variant that falls back to no requirements when the file is missing.
_parse_requirements_from_file_fallback(f, requirements_file) ==
    IF isfile(f, requirements_file)
    THEN LET lines == readlines(f[requirements_file].data)
         IN  Ok([i \in 1..Len(lines) |-> strip(lines[i])])
    ELSE Ok(<<>>)

\* open() of a file that does not exist raises FileNotFoundError.
_parse_requirements_from_file(f, requirements_file) ==
    IF isfile(f, requirements_file)
    THEN LET lines == readlines(f[requirements_file].data)
         IN  Ok([i \in 1..Len(lines) |-> strip(lines[i])])
    ELSE Raised(FileNotFoundError(requirements_file))

\* A variant that reads the section _read_config_section defaults to.
_parse_build_info_general(f, config_file) ==
    _read_config_section(f, config_file, "General")

_parse_build_info(f, config_file) ==
    _read_config_section(f, config_file, "Build")

\* The f-string of generate_setup_py, stripped.
setup_py_template(info, scr, eps, reqs) ==
    strip(
      <<"\n", "from setuptools import setup, find_packages", "\n", "\n",
        "setup(", "\n">>
      \o <<"    ", "name=", "'">>
      \o dict_get(info, "name", <<"homepip_server">>) \o <<"'", ",", "\n">>
      \o <<"    ", "version=", "'">>
      \o dict_get(info, "version", <<"1.0">>) \o <<"'", ",", "\n">>
      \o <<"    ", "description=", "'">>
      \o dict_get(info, "description", <<>>) \o <<"'", ",", "\n">>
      \o <<"    ", "long_description=", "open(", "'">>
      \o dict_get(info, "long_description", <<"README.md">>)
      \o <<"'", ")", ".read()", ",", "\n">>
      \o <<"    ", "license=", "'">>
      \o dict_get(info, "license", <<"MIT">>) \o <<"'", ",", "\n">>
      \o <<"    ", "author=", "'">>
      \o dict_get(info, "author", <<>>) \o <<"'", ",", "\n">>
      \o <<"    ", "packages=find_packages()", ",", "\n">>
      \o <<"    ", "scripts=">> \o repr_list(scr) \o <<",", "\n">>
      \o <<"    ", "entry_points=">> \o repr_dict(eps) \o <<",", "\n">>
      \o <<"    ", "install_requires=">> \o repr_list(reqs) \o <<",", "\n">>
      \o <<"    ", "setup_requires=['setuptools', 'wheel']", ",", "\n",
           "\n", ")", "\n">>)

(***************************************************************************)
(* Inputs: the config documents, requirements files and command lines the  *)
(* model runs the program on.                                              *)
(***************************************************************************)
Section(name, items) == [name |-> name, items |-> items]
Item(key, value) == [key |-> key, value |-> value]
SeqsUpTo(S, n) == UNION {[1..k -> S] : k \in 0..n}

\* Build sections: at most MaxBuildKeys of the six keys (name also spelt
\* Name), each with a value or empty.
BuildKeyOrder ==
    <<"name", "Name", "version", "description", "long_description",
      "license", "author">>
BuildRawKeys == {BuildKeyOrder[i] : i \in 1..Len(BuildKeyOrder)}
BuildValues == {<<"X">>, <<>>}
BuildKeySets ==
    {K \in SUBSET BuildRawKeys :
        Cardinality(K) <= MaxBuildKeys /\ ~({"name", "Name"} \subseteq K)}
BuildItems(K, v) ==
    LET In(k) == k \in K
        ks == SelectSeq(BuildKeyOrder, In)
    IN  [i \in 1..Len(ks) |-> Item(ks[i], v[ks[i]])]
BuildDocs ==
    UNION {{<<Section("Build", BuildItems(K, v))>> : v \in [K -> BuildValues]} :
           K \in BuildKeySets}

\* Scripts sections: up to MaxEntries items; the keys are not in sorted order.
EntryKeyOrder == <<"foo", "bar", "qux", "baz">>
EntryCounts == {n \in 0..MaxEntries : n <= Len(EntryKeyOrder)}
ScriptValues == {<<"bin/a">>, <<"bin/b">>}
ScriptDocs ==
    UNION {{<<Section("Scripts", [i \in 1..n |-> Item(EntryKeyOrder[i], v[i])])>> :
              v \in [1..n -> ScriptValues]} : n \in EntryCounts}

\* ConsoleScripts sections: one value of up to MaxValLen characters, or
\* several shorter ones; any number of colons.
EntryChars == {"m", ":"}
EntryValues(n) ==
    IF n <= 1 THEN SeqsUpTo(EntryChars, MaxValLen)
    ELSE SeqsUpTo(EntryChars, MaxValLen - 1)
EntryDocs ==
    UNION {{<<Section("ConsoleScripts",
                      [i \in 1..n |-> Item(EntryKeyOrder[i], v[i])])>> :
              v \in [1..n -> EntryValues(n)]} : n \in EntryCounts}

BaseDoc ==
    <<Section("General", <<Item("project", <<"demo">>)>>),
      Section("Build", <<Item("Name", <<"pkg">>), Item("version", <<"0.1">>)>>),
      Section("Scripts", <<Item("run", <<"bin/run">>)>>),
      Section("ConsoleScripts", <<Item("foo", <<"m", ":", "f">>)>>)>>
\* One well-formed entry point and one without a colon.
NoColonDoc ==
    <<Section("Build", <<Item("name", <<"pkg">>)>>),
      Section("ConsoleScripts",
              <<Item("foo", <<"m", ":", "f">>), Item("bar", <<"m", "f">>)>>)>>
ExampleDoc ==
    <<Section("Build", <<Item("name", <<"example">>)>>)>>
\* What another process writes over the config file while an invocation runs.
RewrittenDoc ==
    <<Section("Build", <<Item("name", <<"pkg2">>), Item("license", <<"BSD">>)>>),
      Section("Scripts", <<Item("run", <<"bin/run2">>), Item("aux", <<"bin/aux">>)>>),
      Section("ConsoleScripts", <<Item("foo", <<"m", ":", "g">>)>>)>>
RewriteDocs == {BaseDoc, RewrittenDoc}
OldDoc == <<Section("Build", <<Item("name", <<"old">>)>>)>>

LibDocs == {<<>>, BaseDoc} \cup BuildDocs \cup ScriptDocs \cup EntryDocs
CliDocs == {<<>>, BaseDoc, NoColonDoc}

ReqChars == {"a", " ", "\n"}
ReqTexts == SeqsUpTo(ReqChars, MaxReqLen)
BaseReq == <<"a", "\n">>

BaseFs ==
    [p \in Paths |->
        CASE p = Cwd -> Dir
          [] p = ConfigPath -> File(BaseDoc)
          [] p = ReadmePath -> File(<<"r">>)
          [] p = RequirementsPath -> File(BaseReq)
          [] p = ExampleConfigPath -> File(ExampleDoc)
          [] OTHER -> Absent]

\* What a direct call of generate_setup_py runs on.
LibFs ==
    {[BaseFs EXCEPT ![ConfigPath] = File(d)] : d \in LibDocs}
    \cup {[BaseFs EXCEPT ![RequirementsPath] = File(t)] : t \in ReqTexts}
    \cup {[BaseFs EXCEPT ![RequirementsPath] = Absent]}

\* What the command line runs on: each file there or not.
CliFs ==
    {[p \in Paths |->
        CASE p = Cwd -> Dir
          [] p = ConfigPath -> c
          [] p = ReadmePath -> r
          [] p = RequirementsPath -> q
          [] p = SetupPath -> o
          [] p = ExampleConfigPath -> e
          [] OTHER -> t] :
     c \in {Absent} \cup {File(d) : d \in CliDocs},
     r \in {Absent, File(<<"r">>)},
     q \in {Absent, File(BaseReq)},
     o \in {Absent, File(<<"old">>)},
     e \in {Absent, File(ExampleDoc)},
     t \in {Absent, File(OldDoc)}}

Namespace(sub, cfg, it, out) ==
    [subcommand |-> sub, config_file |-> cfg, integration_task |-> it,
     output_file |-> out]
CliArgs ==
    {Namespace("generate", ConfigPath, it, out) :
        it \in BOOLEAN, out \in {NoPath, SetupPath}}
    \cup {Namespace("template", NoPath, FALSE, out) :
            out \in {NoPath, TemplateOutPath}}
    \cup {Namespace("none", NoPath, FALSE, NoPath)}
LibArgs == Namespace("generate_setup_py", ConfigPath, FALSE, NoPath)

(***************************************************************************)
(* The state machine.  An invocation is either the command line (main)     *)
(* or a direct call of generate_setup_py; an uncaught exception ends it.   *)
(***************************************************************************)
Locals == <<build_info, scripts, entry_points, requirements, setup_py_content>>

InitCli ==
    /\ fs \in CliFs
    /\ args \in CliArgs
    /\ pc = "main"

InitLib ==
    /\ fs \in LibFs
    /\ args = LibArgs
    /\ pc = "gen_build"

Init ==
    /\ (InitCli \/ InitLib)
    /\ entry_fs = fs
    /\ build_info = None
    /\ scripts = None
    /\ entry_points = None
    /\ requirements = None
    /\ setup_py_content = None
    /\ error = NoError
    /\ io_log = <<>>

Raise(e) ==
    /\ error' = e
    /\ pc' = "done"

\* main(): dispatch on the subcommand; no subcommand prints the help.
Main ==
    /\ pc = "main"
    /\ pc' = IF args.subcommand = "generate"
             THEN IF args.integration_task THEN "it_readme" ELSE "gs_check"
             ELSE IF args.subcommand = "template" THEN "template"
             ELSE "done"
    /\ UNCHANGED <<fs, entry_fs, args, Locals, error>>
    /\ UNCHANGED io_log

\* ---- generate_setup_py(config_file), one step per statement ----

\* Where generate_setup_py returns to.
AfterGenerate ==
    IF args.subcommand = "generate"
    THEN IF args.integration_task THEN "it_clean_readme" ELSE "gs_write"
    ELSE "done"

GenBuildInfo ==
    /\ pc = "gen_build"
    /\ build_info' = Some(_parse_build_info(fs, args.config_file))
    /\ pc' = "gen_scripts"
    /\ UNCHANGED <<fs, entry_fs, args, scripts, entry_points, requirements,
                   setup_py_content, error>>
    /\ UNCHANGED io_log

GenScripts ==
    /\ pc = "gen_scripts"
    /\ scripts' = Some(_parse_scripts_from_config(fs, args.config_file))
    /\ pc' = "gen_entry_points"
    /\ UNCHANGED <<fs, entry_fs, args, build_info, entry_points, requirements,
                   setup_py_content, error>>
    /\ UNCHANGED io_log

GenEntryPoints ==
    /\ pc = "gen_entry_points"
    /\ LET r == _parse_entry_points_from_config(fs, args.config_file)
       IN  IF r.error # NoError
           THEN Raise(r.error) /\ UNCHANGED entry_points
           ELSE /\ entry_points' = Some(r.value)
                /\ pc' = "gen_requirements"
                /\ UNCHANGED error
    /\ UNCHANGED <<fs, entry_fs, args, build_info, scripts, requirements,
                   setup_py_content>>
    /\ UNCHANGED io_log

GenRequirements ==
    /\ pc = "gen_requirements"
    /\ LET r == _parse_requirements_from_file(fs, RequirementsPath)
       IN  IF r.error # NoError
           THEN Raise(r.error) /\ UNCHANGED requirements
           ELSE /\ requirements' = Some(r.value)
                /\ pc' = "gen_render"
                /\ UNCHANGED error
    /\ UNCHANGED <<fs, entry_fs, args, build_info, scripts, entry_points,
                   setup_py_content>>
    /\ UNCHANGED io_log

GenRender ==
    /\ pc = "gen_render"
    /\ setup_py_content' =
          Some(setup_py_template(build_info.val, scripts.val,
                                 entry_points.val, requirements.val))
    /\ pc' = AfterGenerate
    /\ UNCHANGED <<fs, entry_fs, args, build_info, scripts, entry_points,
                   requirements, error>>
    /\ UNCHANGED io_log

\* ---- generate_setup(config_file, output_file) ----

GenerateSetupCheck ==
    /\ pc = "gs_check"
    /\ IF ~isfile(fs, args.config_file)
       THEN Raise(FileNotFoundError(args.config_file))
       ELSE pc' = "gen_build" /\ UNCHANGED error
    /\ UNCHANGED <<fs, entry_fs, args, Locals>>
    /\ UNCHANGED io_log

\* With an output_file the content goes to write_cautious(os.getcwd(), ...):
\* the path handed over is the working directory, never output_file.  What
\* devinci_pyutils.write_cautious does with a directory is not this
\* repository's code: it raises or returns, and no file changes.
GenerateSetupWrite ==
    /\ pc = "gs_write"
    /\ IF args.output_file # NoPath
       THEN \E e \in {NoError, IsADirectoryError(Cwd)} : error' = e
       ELSE UNCHANGED error
    /\ pc' = "done"
    /\ UNCHANGED <<fs, entry_fs, args, Locals>>
    /\ UNCHANGED io_log

\* ---- integration_task(config_file) ----

IntegrationCreateReadme ==
    /\ pc = "it_readme"
    /\ fs' = IF ~isfile(fs, ReadmePath) THEN create_empty(fs, ReadmePath) ELSE fs
    /\ pc' = "it_requirements"
    /\ UNCHANGED <<entry_fs, args, Locals, error>>
    /\ UNCHANGED io_log

IntegrationCreateRequirements ==
    /\ pc = "it_requirements"
    /\ fs' = IF ~isfile(fs, RequirementsPath)
             THEN create_empty(fs, RequirementsPath)
             ELSE fs
    /\ pc' = "gen_build"
    /\ UNCHANGED <<entry_fs, args, Locals, error>>
    /\ UNCHANGED io_log

\* os.remove(path): the file is gone, or the call raises.
os_remove(f, path) ==
    IF isfile(f, path) THEN [error |-> NoError, fs |-> [f EXCEPT ![path] = Absent]]
    ELSE IF f[path].kind = "dir" THEN [error |-> IsADirectoryError(path), fs |-> f]
    ELSE [error |-> FileNotFoundError(path), fs |-> f]

\* if not os.path.isfile(path): os.remove(path)
remove_if_not_file(f, path) ==
    IF ~isfile(f, path) THEN os_remove(f, path)
    ELSE [error |-> NoError, fs |-> f]

IntegrationCleanReadme ==
    /\ pc = "it_clean_readme"
    /\ LET r == remove_if_not_file(fs, ReadmePath)
       IN  /\ fs' = r.fs
           /\ IF r.error # NoError THEN Raise(r.error)
              ELSE pc' = "it_clean_requirements" /\ UNCHANGED error
    /\ UNCHANGED <<entry_fs, args, Locals>>
    /\ UNCHANGED io_log

IntegrationCleanRequirements ==
    /\ pc = "it_clean_requirements"
    /\ LET r == remove_if_not_file(fs, RequirementsPath)
       IN  /\ fs' = r.fs
           /\ error' = r.error
           /\ pc' = "done"
    /\ UNCHANGED <<entry_fs, args, Locals>>
    /\ UNCHANGED io_log

\* ---- create_config_template(args) ----

\* devinci_pyutils.copy(src, dst): dst holds what src holds.
copy(f, src, dst) == [f EXCEPT ![dst] = File(f[src].data)]

\* A variant without the isfile test: the destination is opened for
\* writing before the read of the example fails.
create_config_template_unchecked(f, a) ==
    LET output_file == IF a.output_file # NoPath THEN a.output_file ELSE ConfigPath
    IN  IF ~isfile(f, ExampleConfigPath)
        THEN [error |-> FileNotFoundError(ExampleConfigPath),
              fs |-> create_empty(f, output_file)]
        ELSE [error |-> NoError, fs |-> copy(f, ExampleConfigPath, output_file)]

create_config_template(f, a) ==
    LET output_file == IF a.output_file # NoPath THEN a.output_file ELSE ConfigPath
    IN  IF ~isfile(f, ExampleConfigPath)
        THEN [error |-> FileNotFoundError(ExampleConfigPath), fs |-> f]
        ELSE [error |-> NoError, fs |-> copy(f, ExampleConfigPath, output_file)]

CreateConfigTemplate ==
    /\ pc = "template"
    /\ LET r == create_config_template(fs, args)
       IN  /\ fs' = r.fs
           /\ error' = r.error
    /\ pc' = "done"
    /\ UNCHANGED <<entry_fs, args, Locals>>
    /\ UNCHANGED io_log

Next ==
    \/ Main
    \/ GenBuildInfo
    \/ GenScripts
    \/ GenEntryPoints
    \/ GenRequirements
    \/ GenRender
    \/ GenerateSetupCheck
    \/ GenerateSetupWrite
    \/ IntegrationCreateReadme
    \/ IntegrationCreateRequirements
    \/ IntegrationCleanReadme
    \/ IntegrationCleanRequirements
    \/ CreateConfigTemplate

Spec == Init /\ [][Next]_vars

\* ---- another process, while generate_setup_py runs ----

\* Nothing locks the config file (each extractor opens it, reads it and
\* closes it again), so between two statements of generate_setup_py another
\* process may replace its contents.
InGenerateSetupPy ==
    pc \in {"gen_build", "gen_scripts", "gen_entry_points",
            "gen_requirements", "gen_render"}

RewriteConfig ==
    /\ InGenerateSetupPy
    /\ \E d \in RewriteDocs :
          /\ fs[args.config_file] # File(d)
          /\ fs' = [fs EXCEPT ![args.config_file] = File(d)]
    /\ UNCHANGED <<entry_fs, args, pc, Locals, error>>
    /\ UNCHANGED io_log

\* A direct call of generate_setup_py next to the rewriting process.
InitConcurrent == Init /\ InitLib

NextConcurrent ==
    \/ GenBuildInfo
    \/ GenScripts
    \/ GenEntryPoints
    \/ GenRequirements
    \/ GenRender
    \/ RewriteConfig

SpecConcurrent == InitConcurrent /\ [][NextConcurrent]_vars

(***************************************************************************)
(* builder.py: the legacy build(config_file) flow.  It never parses the    *)
(* config file: the file's text goes into setup.py as it is, so here a     *)
(* config file holds plain text.  A line typed at a prompt is one token.   *)
(***************************************************************************)
EOFError == <<"EOFError", "input">>

OverwritePrompt ==
    "A setup.py file already exists. Do you want to overwrite it? (y/n): "
InstallPrompt ==
    "Package built successfully. Do you want to install it now? (y/n): "
InstallTypePrompt == "Do you want to install with pip or pipenv? (pip/pipenv): "
BuildCommand == "python setup.py sdist bdist_wheel"
PipInstallCommand == "pip install -e ."
PipenvInstallCommand == "pipenv install -e ."

\* What the user may type at a y/n prompt, and at the pip/pipenv prompt.
Answers == {"y", "Y", "n", "N", "", "yes", "y "}
InstallTypes == {"pip", "PIP", "pipenv", "conda"}
ConfigTexts == {<<>>, <<"name='pkg',", "\n", "version='0.1',">>}

BuildFs ==
    {[p \in Paths |->
        CASE p = Cwd -> Dir
          [] p = ConfigPath -> c
          [] p = SetupPath -> o
          [] OTHER -> Absent] :
     c \in {Absent} \cup {File(t) : t \in ConfigTexts},
     o \in {Absent, Dir, File(<<"old">>)}}
BuildArgs == Namespace("build", ConfigPath, FALSE, NoPath)

\* str.lower() on the lines above.
lower(s) ==
    CASE s = "Y" -> "y"
      [] s = "N" -> "n"
      [] s = "PIP" -> "pip"
      [] OTHER -> s

exists(f, path) == f[path].kind # "absent"
check_setup_py_exists(f) == exists(f, SetupPath)

\* The entries of io_log.
Input(prompt, line) == <<"input", prompt, line>>
InputEOF(prompt) == <<"eof", prompt, "">>
Open(path) == <<"open", path, "r">>
Run(command) == <<"run", command, "">>
PrintLine(text) == <<"print", text, "">>

\* A variant that takes every answer but 'n' for consent.
prompt_overwrite_setup_py_default_yes(line) == lower(line) # "n"

\* The value returned for the line read at the overwrite prompt.
prompt_overwrite_setup_py(line) == lower(line) = "y"

prompt_install_package(line) == lower(line) = "y"

\* generate_setup_py(config_data) of builder.py: open('setup.py', 'w') and
\* write the template around the config text.
builder_generate_setup_py(f, config_data) ==
    IF f[SetupPath].kind = "dir"
    THEN [error |-> IsADirectoryError(SetupPath), fs |-> f]
    ELSE [error |-> NoError,
          fs |-> [f EXCEPT ![SetupPath] =
                    File(<<"\nfrom setuptools import setup, find_packages\n\nsetup(\n">>
                         \o config_data \o <<"\n)\n">>)]]

\* The io_log entries of install_package(install_type).
install_package(install_type) ==
    IF install_type = "pip" THEN <<Run(PipInstallCommand)>>
    ELSE IF install_type = "pipenv" THEN <<Run(PipenvInstallCommand)>>
    ELSE <<PrintLine("Invalid choice. Package not installed.")>>

InitBuild ==
    /\ fs \in BuildFs
    /\ args = BuildArgs
    /\ pc = "build"
    /\ entry_fs = fs
    /\ build_info = None
    /\ scripts = None
    /\ entry_points = None
    /\ requirements = None
    /\ setup_py_content = None
    /\ error = NoError
    /\ io_log = <<>>

\* if check_setup_py_exists():
BuildCheck ==
    /\ pc = "build"
    /\ pc' = IF check_setup_py_exists(fs) THEN "b_overwrite" ELSE "b_generate"
    /\ UNCHANGED <<fs, entry_fs, args, Locals, error, io_log>>

\* if not prompt_overwrite_setup_py(): input() returns the line typed, or
\* raises EOFError when standard input is at its end.
BuildPromptOverwrite ==
    /\ pc = "b_overwrite"
    /\ \/ /\ io_log' = Append(io_log, InputEOF(OverwritePrompt))
          /\ Raise(EOFError)
       \/ \E line \in Answers :
            /\ io_log' = Append(io_log, Input(OverwritePrompt, line))
            /\ pc' = IF prompt_overwrite_setup_py(line)
                     THEN "b_generate" ELSE "b_skip"
            /\ UNCHANGED error
    /\ UNCHANGED <<fs, entry_fs, args, Locals>>

\* subprocess.run(command) without check: the command's own failure is not
\* an exception; a missing executable is.  The subprocess is taken not to
\* touch the files of the model.
SubprocessRun(command, executable, next_pc) ==
    /\ io_log' = Append(io_log, Run(command))
    /\ \/ pc' = next_pc /\ UNCHANGED error
       \/ Raise(FileNotFoundError(executable))

\* print("Skipping setup.py generation."); run_build_commands(); return
BuildSkip ==
    /\ pc = "b_skip"
    /\ SubprocessRun(BuildCommand, "python", "done")
    /\ UNCHANGED <<fs, entry_fs, args, Locals>>

\* Read the config file's text and write setup.py around it.
BuildGenerate ==
    /\ pc = "b_generate"
    /\ IF ~isfile(fs, args.config_file)
       THEN /\ Raise(IF exists(fs, args.config_file)
                     THEN IsADirectoryError(args.config_file)
                     ELSE FileNotFoundError(args.config_file))
            /\ UNCHANGED <<fs, io_log>>
       ELSE LET r == builder_generate_setup_py(fs, fs[args.config_file].data)
            IN  /\ io_log' = Append(io_log, Open(args.config_file))
                /\ fs' = r.fs
                /\ IF r.error # NoError THEN Raise(r.error)
                   ELSE pc' = "b_run" /\ UNCHANGED error
    /\ UNCHANGED <<entry_fs, args, Locals>>

\* run_build_commands() after the generation.
BuildRun ==
    /\ pc = "b_run"
    /\ SubprocessRun(BuildCommand, "python", "b_install")
    /\ UNCHANGED <<fs, entry_fs, args, Locals>>

\* if prompt_install_package():
BuildPromptInstall ==
    /\ pc = "b_install"
    /\ \/ /\ io_log' = Append(io_log, InputEOF(InstallPrompt))
          /\ Raise(EOFError)
       \/ \E line \in Answers :
            /\ io_log' = Append(io_log, Input(InstallPrompt, line))
            /\ pc' = IF prompt_install_package(line)
                     THEN "b_install_type" ELSE "done"
            /\ UNCHANGED error
    /\ UNCHANGED <<fs, entry_fs, args, Locals>>

\* install_type = input(...).lower(); install_package(install_type)
BuildInstall ==
    /\ pc = "b_install_type"
    /\ \/ /\ io_log' = Append(io_log, InputEOF(InstallTypePrompt))
          /\ Raise(EOFError)
       \/ \E line \in InstallTypes :
            /\ io_log' = Append(io_log, Input(InstallTypePrompt, line))
                             \o install_package(lower(line))
            /\ pc' = "done"
            /\ UNCHANGED error
    /\ UNCHANGED <<fs, entry_fs, args, Locals>>

NextBuild ==
    \/ BuildCheck
    \/ BuildPromptOverwrite
    \/ BuildSkip
    \/ BuildGenerate
    \/ BuildRun
    \/ BuildPromptInstall
    \/ BuildInstall

SpecBuild == InitBuild /\ [][NextBuild]_vars

TypeOK ==
    /\ pc \in {"main", "gen_build", "gen_scripts", "gen_entry_points",
               "gen_requirements", "gen_render", "gs_check", "gs_write",
               "it_readme", "it_requirements", "it_clean_readme",
               "it_clean_requirements", "template", "done",
               "build", "b_overwrite", "b_skip", "b_generate", "b_run",
               "b_install", "b_install_type"}
    /\ DOMAIN fs = Paths
    /\ \A p \in Paths : fs[p].kind \in {"absent", "dir", "file"}

(***************************************************************************)
(* Vocabulary of the properties, stated on the files as written and not    *)
(* through the extractors above.                                           *)
(***************************************************************************)
Done == pc = "done"
IsGenerate == args.subcommand = "generate"
IsIntegration == IsGenerate /\ args.integration_task
IsPlainGenerate == IsGenerate /\ ~args.integration_task
IsLibraryCall == args.subcommand = "generate_setup_py"
IsTemplate == args.subcommand = "template"

Contains(s, sub) ==
    \E i \in 0..(Len(s) - Len(sub)) : SubSeq(s, i + 1, i + Len(sub)) = sub

\* The config document as written when the invocation started.
ConfigAtEntry ==
    IF isfile(entry_fs, ConfigPath) THEN entry_fs[ConfigPath].data ELSE <<>>
Declares(name) == \E s \in 1..Len(ConfigAtEntry) : ConfigAtEntry[s].name = name
Declared(name) ==
    IF Declares(name)
    THEN ConfigAtEntry[CHOOSE s \in 1..Len(ConfigAtEntry) :
                          ConfigAtEntry[s].name = name].items
    ELSE <<>>

NumColons(v) == Cardinality({i \in 1..Len(v) : v[i] = ":"})
FirstColon(v) == Min({i \in 1..Len(v) : v[i] = ":"})
BeforeFirstColon(v) == SubSeq(v, 1, FirstColon(v) - 1)
AfterFirstColon(v) == SubSeq(v, FirstColon(v) + 1, Len(v))

\* Entry-point extraction has run (and returned or raised).
EntryPointsRan == scripts.set /\ pc # "gen_entry_points"
EntryPointsFailed == ~entry_points.set /\ error = ValueError /\ Done

\* The console_scripts list the spec describes: key=module:function per
\* item, cut at the first colon, in declaration order.
ExpectedEntryPoints ==
    LET items == Declared("ConsoleScripts")
    IN  <<[key |-> "console_scripts",
           value |-> [i \in 1..Len(items) |->
                        <<items[i].key, "=">> \o BeforeFirstColon(items[i].value)
                        \o <<":">> \o AfterFirstColon(items[i].value)]]>>

(***************************************************************************)
(* C1.  Integration mode removes exactly the placeholders it created: when *)
(* integration_task has returned, README.md and requirements.txt each      *)
(* exist iff they existed at entry, and one that existed is unchanged.     *)
(* The cleanup test `if not os.path.isfile(...)` is inverted, so a         *)
(* placeholder the task created stays behind.                              *)
(***************************************************************************)
Placeholders == {ReadmePath, RequirementsPath}

C1_PlaceholdersRemoved ==
    (Done /\ IsIntegration /\ error = NoError) =>
        \A p \in Placeholders :
            /\ isfile(fs, p) <=> isfile(entry_fs, p)
            /\ isfile(entry_fs, p) => fs[p] = entry_fs[p]

(***************************************************************************)
(* C2.  A generate invocation given a destination path that succeeds       *)
(* leaves the rendered manifest at that path, whatever was there before.   *)
(* generate_setup hands os.getcwd() to the writer instead of output_file,  *)
(* and main drops output_file altogether with --integration-task.          *)
(***************************************************************************)
C2_OutputFileHoldsManifest ==
    (Done /\ IsGenerate /\ args.output_file # NoPath /\ error = NoError
          /\ setup_py_content.set) =>
        fs[args.output_file] = File(setup_py_content.val)

(***************************************************************************)
(* C3.  A generate invocation whose config file does not exist fails with  *)
(* the config-not-found error before anything is parsed, and no file is    *)
(* created, modified or deleted.  integration_task makes no such check.    *)
(***************************************************************************)
C3_MissingConfigFailsCleanly ==
    (Done /\ IsGenerate /\ ~isfile(entry_fs, args.config_file)) =>
        /\ error = FileNotFoundError(args.config_file)
        /\ ~build_info.set
        /\ fs = entry_fs

(***************************************************************************)
(* C4.  Every Build field of the rendered manifest holds the configured    *)
(* value when the Build section declares the key and the documented        *)
(* default when it does not: name='homepip_server', version='1.0',         *)
(* description='', long_description=open('README.md').read(),              *)
(* license='MIT', author=''.  In particular a document that is only        *)
(* [Build] name = X renders name='X' and five defaults.                    *)
(***************************************************************************)
BuildFields ==
    {"name", "version", "description", "long_description", "license", "author"}
Spellings(k) == IF k = "name" THEN {"name", "Name"} ELSE {k}
DocumentedDefault(k) ==
    CASE k = "name" -> <<"homepip_server">>
      [] k = "version" -> <<"1.0">>
      [] k = "long_description" -> <<"README.md">>
      [] k = "license" -> <<"MIT">>
      [] OTHER -> <<>>
ConfiguredOrDefault(k) ==
    LET items == Declared("Build")
        hits == {i \in 1..Len(items) : items[i].key \in Spellings(k)}
    IN  IF hits = {} THEN DocumentedDefault(k)
        ELSE items[CHOOSE i \in hits : TRUE].value
FieldText(k, v) ==
    CASE k = "name" -> <<"name=", "'">> \o v \o <<"'", ",">>
      [] k = "version" -> <<"version=", "'">> \o v \o <<"'", ",">>
      [] k = "description" -> <<"description=", "'">> \o v \o <<"'", ",">>
      [] k = "long_description" ->
            <<"long_description=", "open(", "'">> \o v
            \o <<"'", ")", ".read()", ",">>
      [] k = "license" -> <<"license=", "'">> \o v \o <<"'", ",">>
      [] k = "author" -> <<"author=", "'">> \o v \o <<"'", ",">>

C4_BuildDefaults ==
    setup_py_content.set =>
        \A k \in BuildFields :
            Contains(setup_py_content.val, FieldText(k, ConfiguredOrDefault(k)))

C4_NameOnlyRendered ==
    /\ setup_py_content.set
    /\ ConfigAtEntry = <<Section("Build", <<Item("name", <<"X">>)>>)>>
    /\ Contains(setup_py_content.val, <<"name=", "'", "X", "'", ",">>)
    /\ Contains(setup_py_content.val, <<"version=", "'", "1.0", "'", ",">>)
    /\ Contains(setup_py_content.val, <<"license=", "'", "MIT", "'", ",">>)

(***************************************************************************)
(* C5.  As claimed: extraction cuts each ConsoleScripts value at its first *)
(* colon, so whenever every value has at least one colon (two or more      *)
(* included) it succeeds with one key=module:function string per item, in  *)
(* declaration order.                                                      *)
(***************************************************************************)
C5_FirstColonSplit ==
    (/\ EntryPointsRan
     /\ Declares("ConsoleScripts")
     /\ \A i \in 1..Len(Declared("ConsoleScripts")) :
            NumColons(Declared("ConsoleScripts")[i].value) >= 1) =>
        /\ entry_points.set
        /\ entry_points.val = ExpectedEntryPoints

(***************************************************************************)
(* C5, amended.  Extraction succeeds exactly when every ConsoleScripts     *)
(* value contains exactly one colon, and then yields one string            *)
(* key=module:function per item, in declaration order; a value with two    *)
(* or more colons fails with the same ValueError as a value with none.     *)
(***************************************************************************)
C5_SingleColonSplit ==
    (EntryPointsRan /\ Declares("ConsoleScripts")) =>
        IF \A i \in 1..Len(Declared("ConsoleScripts")) :
              NumColons(Declared("ConsoleScripts")[i].value) = 1
        THEN /\ entry_points.set
             /\ entry_points.val = ExpectedEntryPoints
        ELSE EntryPointsFailed

C5_TwoEntryPointsExtracted ==
    /\ entry_points.set
    /\ Declared("ConsoleScripts") =
          <<Item("foo", <<"m", ":">>), Item("bar", <<":", "m">>)>>
    /\ entry_points.val =
          <<[key |-> "console_scripts",
             value |-> <<<<"foo", "=", "m", ":">>, <<"bar", "=", ":", "m">>>>]>>

(***************************************************************************)
(* C6.  A ConsoleScripts value with no colon makes entry-point extraction  *)
(* fail with ValueError whatever the other items are; no entry list is     *)
(* produced, generate_setup_py returns no manifest, and no file other      *)
(* than the integration placeholders is written.                           *)
(***************************************************************************)
C6_NoColonIsFatal ==
    (/\ EntryPointsRan
     /\ \E i \in 1..Len(Declared("ConsoleScripts")) :
            NumColons(Declared("ConsoleScripts")[i].value) = 0) =>
        /\ EntryPointsFailed
        /\ ~requirements.set
        /\ ~setup_py_content.set
        /\ \A p \in Paths \ Placeholders : fs[p] = entry_fs[p]

C6_NoColonRejected ==
    /\ Done
    /\ IsPlainGenerate
    /\ args.output_file = SetupPath
    /\ ConfigAtEntry = NoColonDoc
    /\ error = ValueError
    /\ ~setup_py_content.set
    /\ ~isfile(fs, SetupPath)

(***************************************************************************)
(* C7.  The scripts list is the Scripts section's values, one per          *)
(* declared key and in declaration order, with the keys dropped; it is     *)
(* rendered as scripts=[...] in the manifest; no Scripts section or an     *)
(* empty one gives the empty list and no error.                            *)
(***************************************************************************)
RECURSIVE QuotedCommaSeparated(_)
QuotedCommaSeparated(l) ==
    IF l = <<>> THEN <<>>
    ELSE <<"'">> \o Head(l) \o <<"'">>
         \o (IF Len(l) > 1 THEN <<", ">> ELSE <<>>)
         \o QuotedCommaSeparated(Tail(l))
ListText(l) == <<"[">> \o QuotedCommaSeparated(l) \o <<"]">>
DeclaredScriptValues ==
    [i \in 1..Len(Declared("Scripts")) |-> Declared("Scripts")[i].value]

C7_ScriptsInDeclarationOrder ==
    /\ pc = "gen_entry_points" => scripts.set /\ error = NoError
    /\ scripts.set => scripts.val = DeclaredScriptValues
    /\ setup_py_content.set =>
          Contains(setup_py_content.val,
                   <<"scripts=">> \o ListText(DeclaredScriptValues) \o <<",">>)

C7_TwoScriptsRendered ==
    /\ setup_py_content.set
    /\ scripts.val = <<<<"bin/b">>, <<"bin/a">>>>
    /\ Contains(setup_py_content.val,
                <<"scripts=", "[", "'", "bin/b", "'", ", ", "'", "bin/a", "'",
                  "]", ",">>)

(***************************************************************************)
(* C8.  The requirement list has exactly one element per line of the       *)
(* requirements file, in file order, each the line without its             *)
(* surrounding whitespace; blank lines stay as empty strings and repeated  *)
(* lines stay repeated.                                                    *)
(***************************************************************************)
\* The requirements file as read: what was there at entry, or the empty
\* placeholder integration_task created.
RequirementsText ==
    IF isfile(entry_fs, RequirementsPath)
    THEN entry_fs[RequirementsPath].data
    ELSE <<>>
Newlines(t) == {i \in 1..Len(t) : t[i] = "\n"}
NumLines(t) ==
    Cardinality(Newlines(t))
    + (IF t # <<>> /\ t[Len(t)] # "\n" THEN 1 ELSE 0)
NthNewline(t, n) ==
    CHOOSE p \in Newlines(t) : Cardinality({q \in Newlines(t) : q <= p}) = n
LineBody(t, i) ==
    SubSeq(t,
           IF i = 1 THEN 1 ELSE NthNewline(t, i - 1) + 1,
           IF i <= Cardinality(Newlines(t)) THEN NthNewline(t, i) - 1 ELSE Len(t))
IsTrimOf(r, body) ==
    /\ r # <<>> => r[1] \notin Whitespace /\ r[Len(r)] \notin Whitespace
    /\ \E a \in 0..Len(body) :
          /\ a + Len(r) <= Len(body)
          /\ SubSeq(body, a + 1, a + Len(r)) = r
          /\ \A j \in 1..a : body[j] \in Whitespace
          /\ \A j \in (a + Len(r) + 1)..Len(body) : body[j] \in Whitespace

C8_OneRequirementPerLine ==
    requirements.set =>
        /\ Len(requirements.val) = NumLines(RequirementsText)
        /\ \A i \in 1..Len(requirements.val) :
              IsTrimOf(requirements.val[i], LineBody(RequirementsText, i))

C8_BlankAndRepeatedKept ==
    /\ requirements.set
    /\ RequirementsText = <<"a", "\n", "\n", "a">>
    /\ requirements.val = <<<<"a">>, <<>>, <<"a">>>>

(***************************************************************************)
(* C9.  As claimed: outside integration mode, an invocation that starts    *)
(* without a requirements file always ends in a file-not-found error,      *)
(* with no requirement list, no manifest and no file written.              *)
(***************************************************************************)
IsFileNotFound(e) == e[1] = "FileNotFoundError"

C9_MissingRequirementsFileNotFound ==
    (Done /\ (IsLibraryCall \/ IsPlainGenerate)
          /\ ~isfile(entry_fs, RequirementsPath)) =>
        /\ IsFileNotFound(error)
        /\ ~requirements.set
        /\ ~setup_py_content.set
        /\ fs = entry_fs

(***************************************************************************)
(* C9, amended.  Outside integration mode, an invocation that starts       *)
(* without a requirements file always fails, with no requirement list      *)
(* substituted, no manifest returned and no file written; the failure is   *)
(* the requirements file's file-not-found error whenever entry-point       *)
(* extraction, which runs first, succeeded, and otherwise that             *)
(* extraction's ValueError (or generate_setup's config-not-found error).   *)
(***************************************************************************)
C9_MissingRequirementsIsFatal ==
    (Done /\ (IsLibraryCall \/ IsPlainGenerate)
          /\ ~isfile(entry_fs, RequirementsPath)) =>
        /\ error # NoError
        /\ ~requirements.set
        /\ ~setup_py_content.set
        /\ fs = entry_fs
        /\ IF entry_points.set
           THEN error = FileNotFoundError(RequirementsPath)
           ELSE \/ EntryPointsFailed
                \/ /\ IsPlainGenerate
                   /\ ~isfile(entry_fs, args.config_file)
                   /\ error = FileNotFoundError(args.config_file)

C9_MissingRequirementsRaised ==
    /\ Done
    /\ IsPlainGenerate
    /\ args.output_file = SetupPath
    /\ ~isfile(entry_fs, RequirementsPath)
    /\ entry_points.set
    /\ error = FileNotFoundError(RequirementsPath)
    /\ ~isfile(fs, SetupPath)

(***************************************************************************)
(* C10.  The template command either copies the bundled example verbatim   *)
(* to the destination (args.output_file, or config.ini), or, when the      *)
(* example is missing, fails with its not-found error and leaves the       *)
(* destination as it was; it touches no other file and never leaves a      *)
(* newly emptied destination behind.                                       *)
(***************************************************************************)
TemplateDestination ==
    IF args.output_file # NoPath THEN args.output_file ELSE "config.ini"

C10_TemplateCopiesOrFails ==
    (Done /\ IsTemplate) =>
        /\ IF isfile(entry_fs, ExampleConfigPath)
           THEN /\ error = NoError
                /\ fs[TemplateDestination] = entry_fs[ExampleConfigPath]
           ELSE /\ error = FileNotFoundError(ExampleConfigPath)
                /\ fs[TemplateDestination] = entry_fs[TemplateDestination]
        /\ \A p \in Paths \ {TemplateDestination} : fs[p] = entry_fs[p]
        /\ fs[TemplateDestination] = File(<<>>) =>
              entry_fs[TemplateDestination] = File(<<>>)

C10_TemplateCopied ==
    /\ Done
    /\ IsTemplate
    /\ args.output_file = TemplateOutPath
    /\ ~isfile(entry_fs, TemplateOutPath)
    /\ error = NoError
    /\ fs[TemplateOutPath] = File(ExampleDoc)

(***************************************************************************)
(* C11: within one generate_setup_py invocation the build info, the script *)
(* list and the entry points that reach the manifest all come from one     *)
(* and the same content of the config file, also when another process      *)
(* rewrites the file during the invocation: some single version the file   *)
(* may have held (its content at entry or a content written meanwhile)     *)
(* yields all three.                                                       *)
(***************************************************************************)
ConfigVersions ==
    {entry_fs[args.config_file]} \cup {File(d) : d \in RewriteDocs}

DerivedFrom(v) ==
    LET f == [fs EXCEPT ![args.config_file] = v]
        eps == _parse_entry_points_from_config(f, args.config_file)
    IN  /\ build_info.val = _parse_build_info(f, args.config_file)
        /\ scripts.val = _parse_scripts_from_config(f, args.config_file)
        /\ eps.error = NoError
        /\ entry_points.val = eps.value

C11_ManifestFromOneVersion ==
    setup_py_content.set => \E v \in ConfigVersions : DerivedFrom(v)

(***************************************************************************)
(* C12: in the legacy build() flow an existing setup.py is never           *)
(* overwritten without consent.  If setup.py exists when build() starts    *)
(* and the line typed at the overwrite prompt is anything but y or Y,      *)
(* then at the end setup.py is what it was, the config file was not        *)
(* opened, the build command was run exactly once, and there was no        *)
(* install prompt and no install command; and the overwrite prompt is      *)
(* issued only when setup.py already exists.                               *)
(***************************************************************************)
IsBuild == args.subcommand = "build"
SetupExistedAtEntry == entry_fs[SetupPath].kind # "absent"
Logged(entry) == \E i \in 1..Len(io_log) : io_log[i] = entry
Times(entry) == Cardinality({i \in 1..Len(io_log) : io_log[i] = entry})
Consent == {"y", "Y"}
OverwriteDeclined ==
    \E line \in Answers \ Consent : Logged(Input(OverwritePrompt, line))
OverwritePrompted ==
    \E i \in 1..Len(io_log) : io_log[i][2] = OverwritePrompt

C12_NoOverwriteWithoutConsent ==
    /\ (IsBuild /\ Done /\ SetupExistedAtEntry /\ OverwriteDeclined) =>
          /\ fs[SetupPath] = entry_fs[SetupPath]
          /\ ~Logged(Open(args.config_file))
          /\ Times(Run(BuildCommand)) = 1
          /\ \A i \in 1..Len(io_log) :
                /\ io_log[i][1] = "run" => io_log[i] = Run(BuildCommand)
                /\ io_log[i][2] \notin {InstallPrompt, InstallTypePrompt}
    /\ (IsBuild /\ OverwritePrompted) => SetupExistedAtEntry

\* build() has returned after an answer that is neither y nor n: the old
\* setup.py was built.
C12_DeclinedAndBuilt ==
    /\ IsBuild /\ Done /\ error = NoError
    /\ entry_fs[SetupPath] = File(<<"old">>)
    /\ isfile(entry_fs, args.config_file)
    /\ Logged(Input(OverwritePrompt, "yes"))
    /\ Logged(Run(BuildCommand))

====
